---- MODULE Spec2Model ----
(***************************************************************************)
(* A model of nusvg.js: the breakpoint resolver (process,                  *)
(* applyContainerQuery, applyQuery), the attribute applier (applyData,     *)
(* applyStyle, applyAttribute) with its transform composition, and the     *)
(* entry points init, onResize and setVariations.                          *)
(*                                                                         *)
(* JavaScript strings are sequences of one-character strings, so that      *)
(* substr, parseInt, indexOf, String.replace and string concatenation are  *)
(* computed character by character.  The alphabet has no line terminator,  *)
(* no white space other than the blank, no sign and no "$".                *)
(***************************************************************************)
EXTENDS Integers, Sequences, FiniteSets, TLC

\* ------------------------------------------------------------------ bounds
MaxWidth == 5        \* measured widths are 0..MaxWidth
MaxFuncs == 2        \* transform functions in one transform expression

\* ----------------------------------------------------------------- strings
NaN == -1            \* the one non-number; every number of the model is >= 0
Null == "null"       \* document.getElementById's result for an unknown id

DigitChars == <<"0", "1", "2", "3", "4", "5", "6", "7", "8", "9">>

IsDigit(c) == \E d \in 1..10 : DigitChars[d] = c

DigitVal(c) == (CHOOSE d \in 1..10 : DigitChars[d] = c) - 1

\* Number -> String conversion of a non-negative integer ('' + n).
RECURSIVE ToStr(_)
ToStr(n) == IF n < 10 THEN <<DigitChars[n + 1]>>
            ELSE ToStr(n \div 10) \o <<DigitChars[(n % 10) + 1]>>

RECURSIVE ParseDigits(_, _)
ParseDigits(s, acc) ==
  IF s = <<>> \/ ~IsDigit(Head(s)) THEN acc
  ELSE ParseDigits(Tail(s), acc * 10 + DigitVal(Head(s)))

\* parseInt(s): the leading run of decimal digits, NaN when there is none.
parseInt(s) == IF s = <<>> \/ ~IsDigit(Head(s)) THEN NaN ELSE ParseDigits(s, 0)

\* s.substr(start)
substr(s, start) == SubSeq(s, start + 1, Len(s))

\* a > b and a < b of JavaScript numbers: false as soon as one side is NaN.
Gt(a, b) == a # NaN /\ b # NaN /\ a > b
Lt(a, b) == a # NaN /\ b # NaN /\ a < b

StartsAt(s, sub, i) ==
  /\ i + Len(sub) - 1 <= Len(s)
  /\ SubSeq(s, i, i + Len(sub) - 1) = sub

\* s.indexOf(sub): 0-based position of the first occurrence, -1 when none.
indexOf(s, sub) ==
  IF \E i \in 1..Len(s) : StartsAt(s, sub, i)
  THEN (CHOOSE i \in 1..Len(s) :
          /\ StartsAt(s, sub, i)
          /\ \A j \in 1..(i - 1) : ~StartsAt(s, sub, j)) - 1
  ELSE -1

TRANSLATE == <<"t", "r", "a", "n", "s", "l", "a", "t", "e">>
DEFAULT == <<"d", "e", "f", "a", "u", "l", "t">>

\* A match of /translate\((.*)\)/ that starts at position i: "translate("
\* at i and a ")" somewhere behind it.
RegexMatchesAt(s, i) ==
  /\ StartsAt(s, TRANSLATE \o <<"(">>, i)
  /\ \E j \in (i + 10)..Len(s) : s[j] = ")"

\* s.replace(/translate\((.*)\)/, r): the leftmost match is replaced; the
\* greedy (.*) takes the match up to the last ")" of s.
regexReplace(s, r) ==
  IF \E i \in 1..Len(s) : RegexMatchesAt(s, i)
  THEN LET i == CHOOSE k \in 1..Len(s) :
                  /\ RegexMatchesAt(s, k)
                  /\ \A m \in 1..(k - 1) : ~RegexMatchesAt(s, m)
           j == CHOOSE k \in (i + 10)..Len(s) :
                  /\ s[k] = ")"
                  /\ \A m \in (k + 1)..Len(s) : s[m] # ")"
       IN SubSeq(s, 1, i - 1) \o r \o SubSeq(s, j + 1, Len(s))
  ELSE s

\* ---------------------------------------------------------- host document
DocIds == {"a", "b"}          \* the ids that resolve to an element

getElementById(el) == IF el \in DocIds THEN el ELSE Null

RED == <<"r", "e", "d">>
BLUE == <<"b", "l", "u", "e">>
NONE == <<"n", "o", "n", "e">>

F_translate == TRANSLATE \o <<"(", "1", ",", "1", ")">>
F_rotate == <<"r", "o", "t", "a", "t", "e", "(", "4", "5", ")">>
F_scale == <<"s", "c", "a", "l", "e", "(", "2", ")">>
F_translateX == TRANSLATE \o <<"X", "(", "5", ")">>

\* Nothing written yet: no inline style, no transform attribute.
EmptyDom == [e \in DocIds |->
               [style |-> [display |-> <<>>, fill |-> <<>>],
                attr |-> [transform |-> <<>>]]]

\* For every slot of the document, the kind of variation that wrote it last.
NoOrigin == [e \in DocIds |->
               [display |-> "none", fill |-> "none", transform |-> "none"]]

\* What one synchronous run has done so far: the document, the applyData
\* calls, the writes in the order they were issued, and whether it threw.
NoEffect(dom, origin) ==
  [dom |-> dom, origin |-> origin, calls |-> <<>>, writes |-> <<>>,
   error |-> FALSE]

WriteRec(st, src, kind, data) ==
  [call |-> Len(st.calls), src |-> src, kind |-> kind, el |-> data.element,
   name |-> data.name, value |-> data.value]

\* ------------------------------------------------------ attribute applier
applyAttribute(st, src, data) ==
  IF data.element # Null
  THEN [st EXCEPT !.dom[data.element].attr[data.name] = data.value,
                  !.origin[data.element][data.name] = src,
                  !.writes = Append(@, WriteRec(st, src, "attr", data))]
  ELSE st

\* applyStyle that leaves out the write when the style already has the value.
applyStyle_onlyOnChange(st, src, data) ==
  IF data.element # Null
     /\ st.dom[data.element].style[data.name] # data.value
  THEN [st EXCEPT !.dom[data.element].style[data.name] = data.value,
                  !.origin[data.element][data.name] = src,
                  !.writes = Append(@, WriteRec(st, src, "style", data))]
  ELSE st

\* applyStyle without the test of data.element: null.style throws.
applyStyle_unguarded(st, src, data) ==
  IF data.element # Null
  THEN [st EXCEPT !.dom[data.element].style[data.name] = data.value,
                  !.origin[data.element][data.name] = src,
                  !.writes = Append(@, WriteRec(st, src, "style", data))]
  ELSE [st EXCEPT !.error = TRUE]

applyStyle(st, src, data) ==
  IF data.element # Null
  THEN [st EXCEPT !.dom[data.element].style[data.name] = data.value,
                  !.origin[data.element][data.name] = src,
                  !.writes = Append(@, WriteRec(st, src, "style", data))]
  ELSE st

\* The switch of applyData over the attributes of one element patch.
RECURSIVE attrLoop(_, _, _, _)
attrLoop(acc, src, element, elAttributes) ==
  IF elAttributes = <<>> THEN acc
  ELSE LET attr == Head(elAttributes)[1]
           attrValue == Head(elAttributes)[2]
           next ==
             CASE attr = "x" ->
                    [acc EXCEPT !.translateData.hasX = TRUE,
                                !.translateData.x = attrValue]
               [] attr = "y" ->
                    [acc EXCEPT !.translateData.hasY = TRUE,
                                !.translateData.y = attrValue]
               [] attr = "display" ->
                    [acc EXCEPT !.st = applyStyle(acc.st, src,
                       [name |-> "display", value |-> attrValue,
                        element |-> element])]
               [] attr = "fill" ->
                    [acc EXCEPT !.st = applyStyle(acc.st, src,
                       [name |-> "fill", value |-> attrValue,
                        element |-> element])]
               [] attr = "transform" ->
                    [acc EXCEPT !.transformValue = attrValue]
               [] OTHER -> acc
       IN attrLoop(next, src, element, Tail(elAttributes))

\* 'translate(' + (x ? x : 0) + ',' + (y ? y : 0) + ')', or null (<<>>)
\* when translateData has no key.
translateValueOf(translateData) ==
  IF translateData.hasX \/ translateData.hasY
  THEN TRANSLATE \o <<"(">>
       \o ToStr(IF translateData.hasX /\ translateData.x # 0
                THEN translateData.x ELSE 0)
       \o <<",">>
       \o ToStr(IF translateData.hasY /\ translateData.y # 0
                THEN translateData.y ELSE 0)
       \o <<")">>
  ELSE <<>>

\* The transform string applyData ends up with (lines 166-171).
composeTransform(transformValue, translateValue) ==
  IF transformValue # <<>>
  THEN IF translateValue # <<>>
       THEN IF indexOf(transformValue, TRANSLATE) # -1
            THEN regexReplace(transformValue, translateValue)
            ELSE transformValue \o <<" ">> \o translateValue
       ELSE transformValue
  ELSE translateValue

\* The body of applyData's outer loop for one element id.
applyElement(st, src, el, elAttributes) ==
  LET element == getElementById(el)
      acc == attrLoop([st |-> st,
                       translateData |-> [hasX |-> FALSE, x |-> 0,
                                          hasY |-> FALSE, y |-> 0],
                       transformValue |-> <<>>],
                      src, element, elAttributes)
      transformValue == composeTransform(acc.transformValue,
                                         translateValueOf(acc.translateData))
  IN IF transformValue # <<>>
     THEN applyAttribute(acc.st, src,
            [name |-> "transform", value |-> transformValue,
             element |-> element])
     ELSE acc.st

RECURSIVE elementLoop(_, _, _)
elementLoop(st, src, queryData) ==
  IF queryData = <<>> THEN st
  ELSE elementLoop(applyElement(st, src, Head(queryData)[1],
                                Head(queryData)[2]),
                   src, Tail(queryData))

\* applyData(queryData); src tells whose data it is ("default"/"matched").
applyData(st, src, queryData) ==
  elementLoop([st EXCEPT !.calls = Append(@, [src |-> src,
                                               data |-> queryData])],
              src, queryData)

\* ------------------------------------------------------ variation resolver
\* filter(...)[0] on a list without a 'default' entry.
Undefined == [query |-> <<"undefined">>, data |-> <<>>]

IsUndefined(q) == q.query = <<"undefined">>

defaultQueryOf(qs) ==
  LET hits == SelectSeq(qs, LAMBDA q : q.query = DEFAULT)
  IN IF hits = <<>> THEN Undefined ELSE hits[1]

\* applyQuery that applies the matched data first and the default last.
applyQuery_swapped(st, query, defaultQuery) ==
  IF IsUndefined(defaultQuery) THEN [st EXCEPT !.error = TRUE]
  ELSE applyData(applyData(st, "matched", query.data),
                 "default", defaultQuery.data)

\* applyQuery that skips a missing default instead of reading its data.
applyQuery_guarded(st, query, defaultQuery) ==
  IF IsUndefined(defaultQuery) THEN applyData(st, "matched", query.data)
  ELSE applyData(applyData(st, "default", defaultQuery.data),
                 "matched", query.data)

\* Reading defaultQuery.data throws a TypeError when defaultQuery is
\* undefined; the exception ends the run before anything is written.
applyQuery(st, query, defaultQuery) ==
  IF IsUndefined(defaultQuery) THEN [st EXCEPT !.error = TRUE]
  ELSE applyData(applyData(st, "default", defaultQuery.data),
                 "matched", query.data)

applyContainerQuery(st, width, data, query, defaultQuery, isLast) ==
  IF isLast
  THEN IF Gt(width, data.max)
       THEN IF IsUndefined(defaultQuery) THEN [st EXCEPT !.error = TRUE]
            ELSE applyData(st, "default", defaultQuery.data)
       ELSE st
  ELSE IF Gt(width, data.min) /\ Lt(width, data.max)
       THEN applyQuery(st, query, defaultQuery)
       ELSE st

\* queryData whose min is always 0.
queryDataOf_minZero(qs, queryIndex) ==
  LET query == qs[queryIndex]
  IN [max |-> IF query.query = DEFAULT THEN 0
              ELSE parseInt(substr(query.query, 1)),
      min |-> 0]

\* {min, max} of the entry at list position queryIndex (1-based here).
queryDataOf(qs, queryIndex) ==
  LET query == qs[queryIndex]
  IN [max |-> IF query.query = DEFAULT THEN 0
              ELSE parseInt(substr(query.query, 1)),
      min |-> IF query.query = DEFAULT \/ queryIndex = 1 THEN 0
              ELSE IF qs[queryIndex - 1].query = DEFAULT THEN 0
              ELSE parseInt(substr(qs[queryIndex - 1].query, 1))]

\* this.queries.forEach(...); an exception leaves the loop.
RECURSIVE queryLoop(_, _, _, _, _)
queryLoop(st, qs, width, defaultQuery, queryIndex) ==
  IF queryIndex > Len(qs) \/ st.error THEN st
  ELSE queryLoop(applyContainerQuery(st, width, queryDataOf(qs, queryIndex),
                                     qs[queryIndex], defaultQuery, FALSE),
                 qs, width, defaultQuery, queryIndex + 1)

\* process(); on an empty list lastQuery is undefined and lastQuery.query
\* throws.
process(st, qs, width) ==
  LET defaultQuery == defaultQueryOf(qs)
      looped == queryLoop(st, qs, width, defaultQuery, 1)
  IN IF looped.error THEN looped
     ELSE IF qs = <<>> THEN [looped EXCEPT !.error = TRUE]
     ELSE LET lastQuery == qs[Len(qs)]
          IN applyContainerQuery(looped, width,
               [max |-> parseInt(substr(lastQuery.query, 1))],
               lastQuery, defaultQuery, TRUE)

\* ------------------------------------------------------------ measurement
Unset == -2          \* the null of a field that was never measured
ViewBoxWidth == 4    \* el.viewBox.baseVal.width of the document
ViewBoxHeight == 3   \* el.viewBox.baseVal.height of the document

Widths == 0..MaxWidth
Heights == {3}

\* measure(measureInitial) when getComputedStyle reports w x h pixels;
\* the quotient scaleFactorX is kept as <<dividend, divisor>>.
measure(c, measureInitial, w, h) ==
  LET c1 == IF measureInitial
            THEN [c EXCEPT !.initialWidth = ViewBoxWidth,
                           !.initialHeight = ViewBoxHeight]
            ELSE c
  IN [c1 EXCEPT !.width = w, !.height = h,
                !.scaleFactorX = <<w, c1.initialWidth>>]

\* ------------------------------------------------------------------ inputs
Thresholds == {2, 4}

Key(t) == <<">">> \o ToStr(t)

D1 == << <<"a", << <<"fill", RED>>, <<"x", 1>> >> >> >>
D2 == << <<"ghost", << <<"fill", BLUE>>, <<"x", 2>> >> >>,
         <<"a", << <<"fill", BLUE>>, <<"stroke", RED>>,
                   <<"transform", F_rotate>> >> >>,
         <<"b", << <<"display", NONE>> >> >> >>

DataPool == {D1, D2}

Variations == [query : {DEFAULT} \cup {Key(t) : t \in Thresholds},
               data : DataPool]

\* Lists with at most one 'default' entry, anywhere, whose other entries
\* have strictly ascending thresholds.
WellOrdered(qs) ==
  /\ \A i, j \in 1..Len(qs) :
       (i < j /\ qs[i].query = DEFAULT) => qs[j].query # DEFAULT
  /\ \A i, j \in 1..Len(qs) :
       (i < j /\ qs[i].query # DEFAULT /\ qs[j].query # DEFAULT)
         => parseInt(substr(qs[i].query, 1)) < parseInt(substr(qs[j].query, 1))

QueryLists ==
  {qs \in UNION {[1..n -> Variations] : n \in 0..(Cardinality(Thresholds) + 1)} :
     WellOrdered(qs)}

\* A key whose suffix is no number: parseInt gives NaN for it.
BadKey == <<">", "x">>

\* Lists of one or two entries, one of them with the malformed key.
MalformedLists ==
  {qs \in UNION {[1..n -> Variations \cup [query : {BadKey}, data : DataPool]] :
                   n \in 1..2} :
     /\ Cardinality({i \in 1..Len(qs) : qs[i].query = BadKey}) = 1
     /\ WellOrdered(SelectSeq(qs, LAMBDA q : q.query # BadKey))}

\* The lists of the runs behind the throttled listener: default first with
\* two ranges, default last, and no default at all.
ResizeLists ==
  {<<[query |-> DEFAULT, data |-> D1], [query |-> Key(2), data |-> D2],
     [query |-> Key(4), data |-> D1]>>,
   <<[query |-> Key(2), data |-> D1], [query |-> DEFAULT, data |-> D2]>>,
   <<[query |-> Key(4), data |-> D2]>>}

Funcs == {F_translate, F_rotate, F_scale, F_translateX}

RECURSIVE Join(_)
Join(fs) == IF fs = <<>> THEN <<>>
            ELSE IF Len(fs) = 1 THEN fs[1]
            ELSE fs[1] \o <<" ">> \o Join(Tail(fs))

FuncLists == UNION {[1..n -> Funcs] : n \in 0..MaxFuncs}

\* An element patch {x, y, transform} with any of the three keys absent.
PatchOf(fs, xs, ys) ==
  (IF xs = <<>> THEN <<>> ELSE << <<"x", xs[1]>> >>)
  \o (IF ys = <<>> THEN <<>> ELSE << <<"y", ys[1]>> >>)
  \o (IF fs = <<>> THEN <<>> ELSE << <<"transform", Join(fs)>> >>)

ComposeLists ==
  {<<[query |-> DEFAULT, data |-> << <<"a", PatchOf(fs, xs, ys)>> >>]>> :
     fs \in FuncLists, xs \in {<<>>, <<0>>, <<10>>}, ys \in {<<>>, <<0>>, <<5>>}}

\* ---------------------------------------------------------------- throttle
Wait == 400          \* the wait of NuSvg.throttle(this.onResize.bind(this), 400, ...)
MaxTicks == 5        \* the clock advances MaxTicks times, half a wait each
MaxTriggers == 3     \* calls of the throttled function in one behaviour
MaxCancels == 1      \* calls of throttled.cancel in one behaviour

\* Date.now() at construction: far above wait, as every real time stamp.
StartTime == 2 * Wait
TickStep == Wait \div 2
MaxTime == StartTime + MaxTicks * TickStep

\* The closure variables of NuSvg.throttle: timeout (0 for null/undefined,
\* else the id of the timer), previous, and whether context/args are held.
\* result is left out: the wrapped onResize returns undefined.
FreshThrottle == [timeout |-> 0, previous |-> 0, args |-> FALSE]

\* options.leading / options.trailing are TRUE unless given as false.
InitOptions == [leading |-> FALSE, trailing |-> TRUE]
AllOptions == [leading : BOOLEAN, trailing : BOOLEAN]

\* setTimeout: a new timer of the host, due after the delay.
NewTimerId(tm) == CHOOSE n \in 1..(Cardinality(tm) + 1) :
                    \A t \in tm : t.id # n

clearTimeout(tm, id) == {t \in tm : t.id # id}

\* throttled() without the clearTimeout of the immediate branch.
throttled_noClear(th, tm, now, opt) ==
  LET previous == IF th.previous = 0 /\ ~opt.leading THEN now ELSE th.previous
      remaining == Wait - (now - previous)
  IN IF remaining <= 0 \/ remaining > Wait
     THEN [thr |-> [timeout |-> 0, previous |-> now, args |-> TRUE],
           timers |-> tm,
           invoke |-> TRUE]
     ELSE IF th.timeout = 0 /\ opt.trailing
     THEN LET id == NewTimerId(tm)
          IN [thr |-> [timeout |-> id, previous |-> previous, args |-> TRUE],
              timers |-> tm \cup {[id |-> id, due |-> now + remaining]},
              invoke |-> FALSE]
     ELSE [thr |-> [th EXCEPT !.previous = previous, !.args = TRUE],
           timers |-> tm, invoke |-> FALSE]

\* throttled() that takes no notice of options.leading.
throttled_alwaysLeading(th, tm, now, opt) ==
  LET previous == th.previous
      remaining == Wait - (now - previous)
  IN IF remaining <= 0 \/ remaining > Wait
     THEN [thr |-> [timeout |-> 0, previous |-> now, args |-> TRUE],
           timers |-> IF th.timeout # 0 THEN clearTimeout(tm, th.timeout)
                      ELSE tm,
           invoke |-> TRUE]
     ELSE IF th.timeout = 0 /\ opt.trailing
     THEN LET id == NewTimerId(tm)
          IN [thr |-> [timeout |-> id, previous |-> previous, args |-> TRUE],
              timers |-> tm \cup {[id |-> id, due |-> now + remaining]},
              invoke |-> FALSE]
     ELSE [thr |-> [th EXCEPT !.previous = previous, !.args = TRUE],
           timers |-> tm, invoke |-> FALSE]

\* throttled() that never schedules the trailing timer.
throttled_noTrailing(th, tm, now, opt) ==
  LET previous == IF th.previous = 0 /\ ~opt.leading THEN now ELSE th.previous
      remaining == Wait - (now - previous)
  IN IF remaining <= 0 \/ remaining > Wait
     THEN [thr |-> [timeout |-> 0, previous |-> now, args |-> TRUE],
           timers |-> IF th.timeout # 0 THEN clearTimeout(tm, th.timeout)
                      ELSE tm,
           invoke |-> TRUE]
     ELSE [thr |-> [th EXCEPT !.previous = previous, !.args = TRUE],
           timers |-> tm, invoke |-> FALSE]

\* throttled() that forgets previous = now in the immediate branch.
throttled_keepsPrevious(th, tm, now, opt) ==
  LET previous == IF th.previous = 0 /\ ~opt.leading THEN now ELSE th.previous
      remaining == Wait - (now - previous)
  IN IF remaining <= 0 \/ remaining > Wait
     THEN [thr |-> [timeout |-> 0, previous |-> previous, args |-> TRUE],
           timers |-> IF th.timeout # 0 THEN clearTimeout(tm, th.timeout)
                      ELSE tm,
           invoke |-> TRUE]
     ELSE IF th.timeout = 0 /\ opt.trailing
     THEN LET id == NewTimerId(tm)
          IN [thr |-> [timeout |-> id, previous |-> previous, args |-> TRUE],
              timers |-> tm \cup {[id |-> id, due |-> now + remaining]},
              invoke |-> FALSE]
     ELSE [thr |-> [th EXCEPT !.previous = previous, !.args = TRUE],
           timers |-> tm, invoke |-> FALSE]

\* throttled() up to the call of func: the closure, the timers of the host,
\* and whether func is invoked now (lines 226-237, 239-241).
throttled(th, tm, now, opt) ==
  LET previous == IF th.previous = 0 /\ ~opt.leading THEN now ELSE th.previous
      remaining == Wait - (now - previous)
  IN IF remaining <= 0 \/ remaining > Wait
     THEN [thr |-> [timeout |-> 0, previous |-> now, args |-> TRUE],
           timers |-> IF th.timeout # 0 THEN clearTimeout(tm, th.timeout)
                      ELSE tm,
           invoke |-> TRUE]
     ELSE IF th.timeout = 0 /\ opt.trailing
     THEN LET id == NewTimerId(tm)
          IN [thr |-> [timeout |-> id, previous |-> previous, args |-> TRUE],
              timers |-> tm \cup {[id |-> id, due |-> now + remaining]},
              invoke |-> FALSE]
     ELSE [thr |-> [th EXCEPT !.previous = previous, !.args = TRUE],
           timers |-> tm, invoke |-> FALSE]

\* later() up to the call of func (lines 219-220).
later(th, now, opt) ==
  [th EXCEPT !.previous = IF ~opt.leading THEN 0 ELSE now, !.timeout = 0]

\* if (!timeout) context = args = null; skipped when func has thrown.
afterFunc(th, threw) ==
  IF ~threw /\ th.timeout = 0 THEN [th EXCEPT !.args = FALSE] ELSE th

\* throttled.cancel that leaves previous as it is.
cancel_keepsPrevious(th, tm) ==
  [thr |-> [th EXCEPT !.timeout = 0, !.args = FALSE],
   timers |-> clearTimeout(tm, th.timeout)]

\* throttled.cancel (lines 245-249)
cancel(th, tm) ==
  [thr |-> [timeout |-> 0, previous |-> 0, args |-> FALSE],
   timers |-> clearTimeout(tm, th.timeout)]

\* ------------------------------------------------------------------- state
VARIABLES queries, svgComposition, bound, dom, origin, calls, writes, error,
          again, pc, thr, options, timers, clock, events

nuVars == <<queries, svgComposition, bound, dom, origin, calls, writes, error,
            again, pc>>

thrVars == <<thr, options, timers, clock, events>>

vars == <<queries, svgComposition, bound, dom, origin, calls, writes, error,
          again, pc, thr, options, timers, clock, events>>

\* new NuSvg(element, queries)
Constructed(qs) ==
  /\ queries = qs
  /\ svgComposition = [initialWidth |-> Unset, initialHeight |-> Unset,
                       width |-> Unset, height |-> Unset,
                       scaleFactorX |-> <<Unset, Unset>>]
  /\ bound = FALSE
  /\ dom = EmptyDom
  /\ origin = NoOrigin
  /\ calls = <<>>
  /\ writes = <<>>
  /\ error = FALSE
  /\ again = FALSE
  /\ pc = "constructed"
  /\ thr = FreshThrottle
  /\ timers = {}
  /\ clock = StartTime
  /\ events = <<>>

Init == \E qs \in QueryLists : Constructed(qs) /\ options = InitOptions

\* The effect of one run becomes the state; calls, writes and error
\* describe the run that has just ended.
Effect(st) ==
  /\ dom' = st.dom
  /\ origin' = st.origin
  /\ calls' = st.calls
  /\ writes' = st.writes
  /\ error' = st.error

\* init(): make the throttled onResize ({leading: false}), bind it as
\* listener, measure(true), process().
init(w, h) ==
  /\ ~bound
  /\ bound' = TRUE
  /\ thr' = FreshThrottle
  /\ options' = InitOptions
  /\ UNCHANGED <<timers, clock, events>>
  /\ svgComposition' = measure(svgComposition, TRUE, w, h)
  /\ Effect(process(NoEffect(dom, origin), queries, svgComposition'.width))
  /\ again' = FALSE
  /\ pc' = "init"
  /\ UNCHANGED queries

\* onResize(): measure(), process().  again records that this run repeats
\* the run before it: same list, same measured width, nothing in between.
\* onResize() that resolves before it measures.
onResizeRun_staleWidth(w, h) ==
  /\ bound
  /\ svgComposition' = measure(svgComposition, FALSE, w, h)
  /\ Effect(process(NoEffect(dom, origin), queries, svgComposition.width))
  /\ again' = (pc \in {"init", "onResize"} /\ w = svgComposition.width)
  /\ pc' = "onResize"
  /\ UNCHANGED <<queries, bound>>

\* The part of the step on the instance is onResizeRun.
onResizeRun(w, h) ==
  /\ bound
  /\ svgComposition' = measure(svgComposition, FALSE, w, h)
  /\ Effect(process(NoEffect(dom, origin), queries, svgComposition'.width))
  /\ again' = (pc \in {"init", "onResize"} /\ w = svgComposition.width)
  /\ pc' = "onResize"
  /\ UNCHANGED <<queries, bound>>

\* onResize() called on its own, not through the listener.
onResize(w, h) ==
  /\ onResizeRun(w, h)
  /\ UNCHANGED thrVars

\* setVariations that also resolves with the new list.
setVariations_andProcess(variations) ==
  /\ queries' = variations
  /\ Effect(process(NoEffect(dom, origin), variations, svgComposition.width))
  /\ again' = FALSE
  /\ pc' = "setVariations"
  /\ UNCHANGED <<svgComposition, bound>>
  /\ UNCHANGED thrVars

\* setVariations(variations)
setVariations(variations) ==
  /\ queries' = variations
  /\ calls' = <<>>
  /\ writes' = <<>>
  /\ error' = FALSE
  /\ again' = FALSE
  /\ pc' = "setVariations"
  /\ UNCHANGED <<svgComposition, bound, dom, origin>>
  /\ UNCHANGED thrVars

Next ==
  \/ \E w \in Widths, h \in Heights : init(w, h)
  \/ \E w \in Widths, h \in Heights : onResize(w, h)
  \/ \E v \in QueryLists : setVariations(v)

Spec == Init /\ [][Next]_vars

\* applyData(data) called on its own, on the document as constructed.
InitCompose ==
  \E qs \in ComposeLists : Constructed(qs) /\ options = InitOptions

applyDataCall ==
  /\ pc = "constructed"
  /\ Effect(applyData(NoEffect(dom, origin), "default", queries[1].data))
  /\ pc' = "applyData"
  /\ UNCHANGED <<queries, svgComposition, bound, again>>
  /\ UNCHANGED thrVars

NextCompose == applyDataCall

SpecCompose == InitCompose /\ [][NextCompose]_vars

\* init(), onResize() and setVariations on lists with a malformed key.
InitMalformed ==
  \E qs \in MalformedLists : Constructed(qs) /\ options = InitOptions

NextMalformed ==
  \/ \E w \in Widths, h \in Heights : init(w, h)
  \/ \E w \in Widths, h \in Heights : onResize(w, h)
  \/ \E v \in MalformedLists : setVariations(v)

SpecMalformed == InitMalformed /\ [][NextMalformed]_vars

\* ------------------------------------------- NuSvg.throttle on its own
\* events is the history of the throttled function: its calls ("trigger"),
\* the invocations of func straight from a call ("leading") and from the
\* timer ("trailing"), and the calls of cancel, each with its time.
Event(kind) == [at |-> clock, kind |-> kind]

CountOf(kind) == Cardinality({i \in 1..Len(events) : events[i].kind = kind})

\* throttled = NuSvg.throttle(func, Wait, options), for any options.
InitThrottle == \E opt \in AllOptions : Constructed(<<>>) /\ options = opt

\* throttled(): no call is made so late that its timer could not fire
\* before the clock of the model stops.
trigger ==
  /\ CountOf("trigger") < MaxTriggers
  /\ clock + Wait <= MaxTime
  /\ LET r == throttled(thr, timers, clock, options)
     IN /\ thr' = IF r.invoke THEN afterFunc(r.thr, FALSE) ELSE r.thr
        /\ timers' = r.timers
        /\ events' = events \o <<Event("trigger")>>
                        \o (IF r.invoke THEN <<Event("leading")>> ELSE <<>>)
  /\ UNCHANGED <<options, clock>>
  /\ UNCHANGED nuVars

\* A timer of the host that is due runs later().
timerFires ==
  /\ \E t \in timers :
       /\ t.due <= clock
       /\ timers' = timers \ {t}
  /\ thr' = afterFunc(later(thr, clock, options), FALSE)
  /\ events' = Append(events, Event("trailing"))
  /\ UNCHANGED <<options, clock>>
  /\ UNCHANGED nuVars

\* throttled.cancel()
cancelCall ==
  /\ CountOf("cancel") < MaxCancels
  /\ LET r == cancel(thr, timers)
     IN thr' = r.thr /\ timers' = r.timers
  /\ events' = Append(events, Event("cancel"))
  /\ UNCHANGED <<options, clock>>
  /\ UNCHANGED nuVars

\* Time passes; timers may fire late, never early.
tick ==
  /\ clock < MaxTime
  /\ clock' = clock + TickStep
  /\ UNCHANGED <<thr, options, timers, events>>
  /\ UNCHANGED nuVars

NextThrottle == trigger \/ timerFires \/ cancelCall \/ tick

SpecThrottle == InitThrottle /\ [][NextThrottle]_vars

\* --------------------------------- the instance behind its throttled listener
InitResize == \E qs \in ResizeLists : Constructed(qs) /\ options = InitOptions

\* A 'resize' event of the window: onResizeThrottled().
resize ==
  /\ bound
  /\ clock + Wait <= MaxTime
  /\ LET r == throttled(thr, timers, clock, options)
     IN /\ timers' = r.timers
        /\ IF r.invoke
           THEN \E w \in Widths, h \in Heights :
                  /\ onResizeRun(w, h)
                  /\ thr' = afterFunc(r.thr, error')
           ELSE thr' = r.thr /\ UNCHANGED nuVars
  /\ UNCHANGED <<options, clock, events>>

\* The trailing timer runs later(), which calls onResize().
timerResize ==
  /\ \E t \in timers :
       /\ t.due <= clock
       /\ timers' = timers \ {t}
  /\ \E w \in Widths, h \in Heights :
       /\ onResizeRun(w, h)
       /\ thr' = afterFunc(later(thr, clock, options), error')
  /\ UNCHANGED <<options, clock, events>>

NextResize ==
  \/ \E w \in Widths, h \in Heights : init(w, h)
  \/ resize
  \/ timerResize
  \/ tick
  \/ \E v \in ResizeLists : setVariations(v)

SpecResize == InitResize /\ [][NextResize]_vars

\* The host runs a due timer in the end, and time goes on.
SpecThrottleLive ==
  InitThrottle /\ [][NextThrottle]_vars
  /\ WF_vars(timerFires) /\ WF_vars(tick)

\* ============================================================ properties
Cycle == pc \in {"init", "onResize"}       \* a process() run has just ended
Width == svgComposition.width

Threshold(q) == parseInt(substr(q.query, 1))

NonDefault(qs) == {i \in 1..Len(qs) : qs[i].query # DEFAULT}
DefaultCount(qs) == Len(qs) - Cardinality(NonDefault(qs))
ThresholdsOf(qs) == {Threshold(qs[i]) : i \in NonDefault(qs)}

CallSrcs == [i \in 1..Len(calls) |-> calls[i].src]

\* The values written, in order, to style/attribute name of element el.
ValuesWritten(ws, el, name) ==
  LET hits == SelectSeq(ws, LAMBDA w : w.el = el /\ w.name = name)
  IN [i \in 1..Len(hits) |-> hits[i].value]

\* The value a patch set gives to attribute name of element el, <<>> if none.
ValueIn(data, el, name) ==
  LET ps == SelectSeq(data, LAMBDA p : p[1] = el)
  IN IF ps = <<>> THEN <<>>
     ELSE LET as == SelectSeq(ps[1][2], LAMBDA a : a[1] = name)
          IN IF as = <<>> THEN <<>> ELSE <<as[1][2]>>

\* C1: with exactly one 'default' entry, a process() run ends as 'nothing
\* applied', 'default alone' or 'default then one matched entry'; it never
\* applies two matched entries.
C1_AtMostOneMatched ==
  (Cycle /\ DefaultCount(queries) = 1)
    => CallSrcs \in {<<>>, <<"default">>, <<"default", "matched">>}

\* The list [default, '>N'] whose two entries both set fill of element a.
C2_Case ==
  /\ Cycle
  /\ Len(queries) = 2
  /\ queries[1].query = DEFAULT
  /\ queries[2].query # DEFAULT
  /\ ValueIn(queries[1].data, "a", "fill") # <<>>
  /\ ValueIn(queries[2].data, "a", "fill") # <<>>

C2_DefaultFill == ValueIn(queries[1].data, "a", "fill")[1]
C2_EntryFill == ValueIn(queries[2].data, "a", "fill")[1]

\* C2 as stated: below N only the default's fill is written to a, above N
\* the default's fill and then the '>N' entry's fill.
C2_Original ==
  C2_Case =>
    /\ (0 < Width /\ Width < Threshold(queries[2]))
         => ValuesWritten(writes, "a", "fill") = <<C2_DefaultFill>>
    /\ Width > Threshold(queries[2])
         => /\ ValuesWritten(writes, "a", "fill")
                 = <<C2_DefaultFill, C2_EntryFill>>
            /\ dom["a"].style.fill = C2_EntryFill

\* C2 (amended): for [default, '>N'], a width w with 0 < w < N writes the
\* default's fill and then the '>N' entry's fill to a, so the entry's value
\* is the one observed; a width w > N writes only the default's fill.
C2_BelowThenAbove ==
  C2_Case =>
    /\ (0 < Width /\ Width < Threshold(queries[2]))
         => /\ ValuesWritten(writes, "a", "fill")
                 = <<C2_DefaultFill, C2_EntryFill>>
            /\ dom["a"].style.fill = C2_EntryFill
    /\ Width > Threshold(queries[2])
         => /\ ValuesWritten(writes, "a", "fill") = <<C2_DefaultFill>>
            /\ dom["a"].style.fill = C2_DefaultFill

C2_Witness ==
  /\ C2_Case
  /\ 0 < Width /\ Width < Threshold(queries[2])
  /\ C2_DefaultFill # C2_EntryFill
  /\ dom["a"].style.fill = C2_EntryFill

\* C3: with one 'default' entry, a run at a width above the last configured
\* threshold applies the default alone, and afterwards no style or attribute
\* of the document is one that a matched non-default variation wrote.
C3_AboveLastAppliesDefault ==
  (/\ Cycle
   /\ DefaultCount(queries) = 1
   /\ ThresholdsOf(queries) # {}
   /\ \A t \in ThresholdsOf(queries) : Width > t)
    => /\ CallSrcs = <<"default">>
       /\ \A e \in DocIds : \A n \in {"display", "fill", "transform"} :
            origin[e][n] # "matched"

\* C4: a run at a width equal to a configured threshold, or at a width in
\* no range and not above the last threshold, writes nothing.
C4_BoundaryWritesNothing ==
  (/\ Cycle
   /\ \/ Width \in ThresholdsOf(queries)
      \/ /\ queries # <<>>
         /\ \A i \in 1..Len(queries) :
              ~(Gt(Width, queryDataOf(queries, i).min)
                /\ Lt(Width, queryDataOf(queries, i).max))
         /\ ~Gt(Width, Threshold(queries[Len(queries)])))
    => writes = <<>>

\* C5: in a run in which a non-default entry matches, every write of the
\* default comes before every write of the matched variation, so the last
\* write to a slot that both set is the matched variation's.
C5_DefaultBeforeMatched ==
  (Cycle /\ \E k \in 1..Len(calls) : calls[k].src = "matched")
    => /\ \A i, j \in 1..Len(writes) :
            (writes[i].src = "default" /\ writes[j].src = "matched") => i < j
       /\ \A e \in DocIds : \A n \in {"display", "fill", "transform"} :
            (\E i, j \in 1..Len(writes) :
               /\ writes[i].el = e /\ writes[i].name = n
               /\ writes[j].el = e /\ writes[j].name = n
               /\ writes[i].src = "default" /\ writes[j].src = "matched")
              => origin[e][n] = "matched"

\* ------------------------------------------- transform composition (C6, C7)
\* The transform functions of an expression: its blank-separated parts.
RECURSIVE Split(_)
Split(s) ==
  IF s = <<>> THEN <<>>
  ELSE IF \A i \in 1..Len(s) : s[i] # " " THEN <<s>>
  ELSE LET i == CHOOSE k \in 1..Len(s) :
                  s[k] = " " /\ \A m \in 1..(k - 1) : s[m] # " "
       IN <<SubSeq(s, 1, i - 1)>> \o Split(SubSeq(s, i + 1, Len(s)))

IsTranslateToken(f) ==
  StartsAt(f, TRANSLATE \o <<"(">>, 1) /\ f[Len(f)] = ")"

HasTranslateToken(fs) == \E k \in 1..Len(fs) : IsTranslateToken(fs[k])

ReplaceFirstToken(fs, r) ==
  LET k == CHOOSE i \in 1..Len(fs) :
             /\ IsTranslateToken(fs[i])
             /\ \A m \in 1..(i - 1) : ~IsTranslateToken(fs[m])
  IN [fs EXCEPT ![k] = r]

\* The patch of element a handed to applyData, and what was written.
PatchX == ValueIn(queries[1].data, "a", "x")
PatchY == ValueIn(queries[1].data, "a", "y")
PatchExpr == LET e == ValueIn(queries[1].data, "a", "transform")
             IN IF e = <<>> THEN <<>> ELSE e[1]
TransformsWritten == ValuesWritten(writes, "a", "transform")

\* 'translate(X,Y)' with X = 0 when x is absent and Y = 0 when y is absent.
ExpectedTranslate ==
  TRANSLATE \o <<"(">> \o ToStr(IF PatchX = <<>> THEN 0 ELSE PatchX[1])
  \o <<",">> \o ToStr(IF PatchY = <<>> THEN 0 ELSE PatchY[1]) \o <<")">>

\* C6: when the expression has a translate(...) token and x or y is present,
\* the transform written is the expression with only its first translate
\* token replaced by the translate value; the other functions stay, in order.
C6_OnlyTokenReplaced ==
  (/\ pc = "applyData"
   /\ HasTranslateToken(Split(PatchExpr))
   /\ (PatchX # <<>> \/ PatchY # <<>>))
    => TransformsWritten
         = <<Join(ReplaceFirstToken(Split(PatchExpr), ExpectedTranslate))>>

\* C7: an expression without translate token gets a blank and the translate
\* value appended; without x and y the expression is written unchanged; an
\* empty expression gives the translate value; an empty result is not written.
C7_RemainingCases ==
  pc = "applyData" =>
    /\ (/\ PatchExpr # <<>>
        /\ ~HasTranslateToken(Split(PatchExpr))
        /\ (PatchX # <<>> \/ PatchY # <<>>))
         => TransformsWritten = <<PatchExpr \o <<" ">> \o ExpectedTranslate>>
    /\ (PatchExpr # <<>> /\ PatchX = <<>> /\ PatchY = <<>>)
         => TransformsWritten = <<PatchExpr>>
    /\ (PatchExpr = <<>> /\ (PatchX # <<>> \/ PatchY # <<>>))
         => TransformsWritten = <<ExpectedTranslate>>
    /\ (PatchExpr = <<>> /\ PatchX = <<>> /\ PatchY = <<>>)
         => TransformsWritten = <<>>

\* --------------------------------------------------------------- C8 to C10
\* The width lies strictly between two configured thresholds.
BetweenThresholds(qs, w) ==
  \E lo, hi \in ThresholdsOf(qs) : lo < w /\ w < hi

\* C8: a run that repeats the run before it (same list, same width strictly
\* between two thresholds) issues the same calls and the same writes with
\* the same values, and leaves the document as the first run left it.
C8_Idempotent ==
  [][(/\ Cycle
      /\ pc' = "onResize"
      /\ queries' = queries
      /\ svgComposition'.width = Width
      /\ BetweenThresholds(queries, Width))
       => (/\ calls' = calls
           /\ writes' = writes
           /\ error' = error
           /\ dom' = dom)]_vars

C8_Witness ==
  /\ pc = "onResize"
  /\ again
  /\ BetweenThresholds(queries, Width)
  /\ \E i \in 1..Len(writes) : writes[i].name = "transform"
  /\ \E i \in 1..Len(writes) : writes[i].src = "matched"

\* The patch set without the ids that resolve to no element.
Resolvable(data) == SelectSeq(data, LAMBDA p : getElementById(p[1]) # Null)

\* The (element, name, value) of the writes that belong to call k.
WritesOfCall(ws, k) ==
  LET hits == SelectSeq(ws, LAMBDA w : w.call = k)
  IN [i \in 1..Len(hits) |-> <<hits[i].el, hits[i].name, hits[i].value>>]

\* C9: an id that resolves to no element gets no write and raises no error
\* (a run on a list with a default never fails), and the other ids of the
\* patch set get exactly the writes they get without the unresolved id.
C9_LookupMiss ==
  /\ \A i \in 1..Len(writes) : writes[i].el \in DocIds
  /\ (queries # <<>> /\ DefaultCount(queries) = 1) => ~error
  /\ \A k \in 1..Len(calls) :
       WritesOfCall(writes, k)
         = WritesOfCall(applyData(NoEffect(EmptyDom, NoOrigin), calls[k].src,
                                  Resolvable(calls[k].data)).writes, 1)

C9_Witness ==
  /\ Cycle
  /\ ~error
  /\ \E k \in 1..Len(calls) :
       /\ \E p \in 1..Len(calls[k].data) :
            /\ calls[k].data[p][1] \notin DocIds
            /\ calls[k].data[p][2] # <<>>
            /\ \E q \in (p + 1)..Len(calls[k].data) :
                 \E i \in 1..Len(writes) :
                   writes[i].call = k /\ writes[i].el = calls[k].data[q][1]

\* C10 as stated: on a list without 'default' entry every run fails and
\* writes nothing.
C10_Original ==
  (Cycle /\ DefaultCount(queries) = 0) => (error /\ writes = <<>>)

\* C10 (amended): on a list without 'default' entry no run applies or writes
\* anything; the run fails exactly when the list is empty or the width is
\* inside a range or above the last threshold, that is, positive and not
\* equal to a threshold; at any other width it ends without error.
C10_NoDefault ==
  (Cycle /\ DefaultCount(queries) = 0)
    => /\ writes = <<>>
       /\ calls = <<>>
       /\ error <=> (queries = <<>>
                     \/ (Width > 0 /\ Width \notin ThresholdsOf(queries)))

C10_Witness ==
  /\ Cycle
  /\ DefaultCount(queries) = 0
  /\ queries # <<>>
  /\ error
  /\ writes = <<>>
  /\ dom # EmptyDom

\* ------------------------------------------------- throttle (C13 to C16, C19)
IsInvocation(e) == e.kind \in {"leading", "trailing"}

NoCancelBetween(i, j) == \A k \in (i + 1)..(j - 1) : events[k].kind # "cancel"

\* C13: with a monotonic clock and no cancel in between, any two invocations
\* of the wrapped function are at least Wait apart.
C13_RateLimit ==
  \A i, j \in 1..Len(events) :
    (i < j /\ IsInvocation(events[i]) /\ IsInvocation(events[j])
     /\ NoCancelBetween(i, j))
      => events[j].at - events[i].at >= Wait

C13_Witness ==
  /\ CountOf("cancel") = 0
  /\ \E i, j \in 1..Len(events) :
       /\ i < j
       /\ events[i].kind = "leading" /\ events[j].kind = "trailing"
       /\ events[j].at - events[i].at = Wait

\* A call of the throttled function that no invocation (and no cancel) has
\* followed yet.
Unserved ==
  \E i \in 1..Len(events) :
    /\ events[i].kind = "trigger"
    /\ \A j \in (i + 1)..Len(events) : events[j].kind = "trigger"

\* C14: with trailing execution enabled, every call of the throttled function
\* is followed, unless it is cancelled, by an invocation of the wrapped
\* function at or after the call, provided the timer fires in the end.
C14_TrailingLiveness == (options.trailing /\ Unserved) ~> ~Unserved

C14_Witness ==
  /\ options.trailing
  /\ CountOf("cancel") = 0
  /\ Len(events) >= 2
  /\ events[Len(events)].kind = "trailing"
  /\ events[Len(events) - 1].kind = "trigger"
  /\ events[Len(events)].at >= events[Len(events) - 1].at + TickStep

\* The first burst of a new throttled function is over: every call so far
\* fell into one wait interval, nothing was cancelled, no timer is pending.
BurstSettled ==
  /\ events # <<>>
  /\ options.trailing
  /\ CountOf("cancel") = 0
  /\ timers = {}
  /\ \A i \in 1..Len(events) :
       events[i].kind = "trigger" => events[i].at < events[1].at + Wait

\* C15 as stated: a burst of N >= 1 calls within one wait interval gives one
\* leading invocation if leading is enabled, none if not, and one trailing
\* invocation.
C15_Original ==
  BurstSettled =>
    /\ CountOf("leading") = (IF options.leading THEN 1 ELSE 0)
    /\ CountOf("trailing") = 1

\* C15 (amended): the burst gives one leading invocation if leading is
\* enabled, none if not; it gives one trailing invocation, except that a
\* burst of a single call with leading enabled gives no trailing invocation.
C15_Burst ==
  BurstSettled =>
    /\ CountOf("leading") = (IF options.leading THEN 1 ELSE 0)
    /\ CountOf("trailing")
         = (IF options.leading /\ CountOf("trigger") = 1 THEN 0 ELSE 1)

C15_Witness ==
  /\ BurstSettled
  /\ options.leading
  /\ CountOf("trigger") >= 2
  /\ CountOf("leading") = 1
  /\ CountOf("trailing") = 1

\* C16: right after cancel no timer is pending and the closure is that of a
\* new throttled function, so the next call behaves as a first call; and a
\* trailing invocation after a cancel needs a call in between.
C16_CancelResets ==
  /\ (events # <<>> /\ events[Len(events)].kind = "cancel")
       => (thr = FreshThrottle /\ timers = {})
  /\ \A i, j \in 1..Len(events) :
       (i < j /\ events[i].kind = "cancel" /\ events[j].kind = "trailing")
         => \E k \in (i + 1)..(j - 1) : events[k].kind = "trigger"

C16_Witness ==
  /\ options.trailing
  /\ Len(events) >= 3
  /\ events[Len(events)].kind = "cancel"
  /\ events[Len(events) - 1].kind = "trigger"
  /\ events[Len(events) - 2].kind = "leading"
  /\ timers = {}

\* C19: at most one timer is pending, and it is the one the closure holds
\* in timeout; without a timeout no timer is pending.
C19_OneTimer ==
  /\ Cardinality(timers) <= 1
  /\ thr.timeout = 0 <=> timers = {}
  /\ \A t \in timers : t.id = thr.timeout

C19_Witness ==
  /\ timers # {}
  /\ CountOf("trigger") >= 2
  /\ events[Len(events)].kind = "trigger"
  /\ events[Len(events) - 1].kind = "trigger"

\* -------------------------------------------------- C11, C12, C17, C18, C20
IsMalformed(q) == q.query # DEFAULT /\ Threshold(q) = NaN

\* C11: a run on a list with a key whose suffix is no number fails with a
\* parse error and writes nothing.
C11_ParseFailure ==
  (Cycle /\ \E i \in 1..Len(queries) : IsMalformed(queries[i]))
    => (error /\ writes = <<>>)

\* The calls, the writes and the failure of a run on list qs at width w.
RunOutcome(qs, w) ==
  LET r == process(NoEffect(EmptyDom, NoOrigin), qs, w)
  IN <<r.calls, r.writes, r.error>>

\* C12: setVariations replaces the list and nothing else: no run, no write,
\* the measurement record, the closure of the throttle and its timer stay;
\* the first run after it resolves with the new list.
C12_SetVariationsOnly ==
  [][/\ queries' # queries
        => /\ pc' = "setVariations"
           /\ calls' = <<>> /\ writes' = <<>> /\ ~error'
           /\ dom' = dom /\ origin' = origin
           /\ svgComposition' = svgComposition
           /\ bound' = bound
           /\ thr' = thr /\ timers' = timers /\ clock' = clock
     /\ (pc = "setVariations" /\ pc' = "onResize")
        => /\ queries' = queries
           /\ <<calls', writes', error'>>
                = RunOutcome(queries, svgComposition'.width)]_vars

C12_Witness ==
  /\ pc = "setVariations"
  /\ timers # {}
  /\ dom # EmptyDom
  /\ svgComposition.width # Unset

\* C17: init measures once, capturing the initial size, and resolves at
\* once, without a call of the throttled function; afterwards the initial
\* size never changes, and every run resolves with the width that its own
\* measurement has just stored.
C17_Measurement ==
  /\ [](/\ bound => /\ svgComposition.initialWidth = ViewBoxWidth
                    /\ svgComposition.initialHeight = ViewBoxHeight
        /\ ~bound => /\ svgComposition.initialWidth = Unset
                     /\ svgComposition.width = Unset
        /\ Cycle => /\ <<calls, writes, error>> = RunOutcome(queries, Width)
                    /\ svgComposition.scaleFactorX
                         = <<Width, svgComposition.initialWidth>>)
  /\ [][/\ bound => /\ svgComposition'.initialWidth
                         = svgComposition.initialWidth
                    /\ svgComposition'.initialHeight
                         = svgComposition.initialHeight
        /\ (~bound /\ bound')
             => /\ pc' = "init"
                /\ thr' = FreshThrottle /\ timers' = {}
                /\ <<calls', writes', error'>>
                     = RunOutcome(queries, svgComposition'.width)]_vars

C17_Witness ==
  /\ pc = "onResize"
  /\ svgComposition.width # ViewBoxWidth
  /\ svgComposition.initialWidth = ViewBoxWidth
  /\ writes # <<>>
  /\ ~again

\* C18: a non-default entry that follows a non-default entry has as min the
\* max of that entry; the first entry and an entry right after the default
\* have min 0; with the default first or last the ranges do not overlap.
C18_RangeContinuity ==
  /\ \A i \in NonDefault(queries) :
       /\ (i > 1 /\ queries[i - 1].query # DEFAULT)
            => queryDataOf(queries, i).min = queryDataOf(queries, i - 1).max
       /\ (i = 1 \/ (i > 1 /\ queries[i - 1].query = DEFAULT))
            => queryDataOf(queries, i).min = 0
       /\ queryDataOf(queries, i).max = Threshold(queries[i])
  /\ (queries # <<>>
      /\ (queries[1].query = DEFAULT \/ queries[Len(queries)].query = DEFAULT))
       => \A i, j \in NonDefault(queries) :
            i < j => queryDataOf(queries, i).max <= queryDataOf(queries, j).min

C18_Witness ==
  /\ Cycle
  /\ Len(queries) = 3
  /\ queries[1].query = DEFAULT
  /\ queryDataOf(queries, 3).min = queryDataOf(queries, 2).max
  /\ Gt(Width, queryDataOf(queries, 3).min)
  /\ Lt(Width, queryDataOf(queries, 3).max)
  /\ CallSrcs = <<"default", "matched">>

\* The number of places of s at which sub occurs.
CountOcc(s, sub) == Cardinality({i \in 1..Len(s) : StartsAt(s, sub, i)})

\* C20: when the patch of an existing element has x or y, one transform is
\* written and it contains the computed translate(X,Y) exactly once.
C20_TranslateOnce ==
  (pc = "applyData" /\ (PatchX # <<>> \/ PatchY # <<>>))
    => /\ Len(TransformsWritten) = 1
       /\ CountOcc(TransformsWritten[1], ExpectedTranslate) = 1

====
